---- MODULE Spec2Model ----
(***************************************************************************)
(* Queue position store (QueueListManager) and progress aggregator         *)
(* (ClientService.GetSceneProgress) of the NeRF-or-Nothing web server.     *)
(*                                                                         *)
(* The store is the MongoDB collection nerfdb.queues: one document per     *)
(* queue name, holding an ordered list of job ids.  Every QueueListManager *)
(* method is a FindOne followed (for the mutators) by an upserting         *)
(* UpdateOne ($set of the whole list).                                     *)
(*                                                                         *)
(* Spec      : every handler runs to completion in one step (sequential    *)
(*             contract of the store and of the aggregator).               *)
(* SpecConc  : the mutators are split at their two store round trips, so   *)
(*             that calls of several clients interleave.                   *)
(* SpecPipe  : the job pipeline of AMPQService: PublishSFMJob, the sfm-out *)
(*             consumer (processSFMJob, PublishNERFJob) and the nerf-out   *)
(*             consumer (processNERFJob), interleaved at their calls to    *)
(*             the broker and the stores, with the workers as environment. *)
(* SpecSup   : the broker connection supervisor: the two runConsumer       *)
(*             loops, consume, ensureConnection, connect and Shutdown.     *)
(***************************************************************************)
EXTENDS Integers, Sequences, FiniteSets, TLC

\* ------------------------------------------------------------------ bounds
NumJobs == 3
MaxTotal == 3
MaxConcCalls == 4
NumPipeJobs == 1
MaxFaults == 2
MaxFails == 2

Jobs == 1..NumJobs

\* --------------------------------------------------------- program values
\* NewQueueListManager: the valid queue names, in the order the progress
\* aggregator relies on (overall queue first, then the stages in order).
queueNames == <<"queue_list", "sfm_list", "nerf_list">>

ValidQueues == {queueNames[i] : i \in 1..Len(queueNames)}

\* Queue ids a caller may pass: the valid ones and one unrecognised name.
QueueIDs == ValidQueues \cup {"bad_list"}

\* A queue document that was never written (FindOne: mongo.ErrNoDocuments);
\* 0 is no job id, so this differs from every stored list.
NoDoc == <<0>>

\* Outcome of a store round trip that the environment decides: the store
\* answers ("none"), the FindOne fails ("find"), the UpdateOne fails ("update").
Faults == {"none", "find", "update"}

\* slices.Contains
contains(arr, x) == \E i \in 1..Len(arr) : arr[i] = x

\* The list a queue conceptually holds (empty while its document is absent).
QueueOf(st, q) == IF st[q] = NoDoc THEN <<>> ELSE st[q]

\* collection.FindOne(ctx, {"_id": queueID}).Decode(&queueList)
FindOne(st, queueID, fault) ==
    IF fault = "find" THEN [err |-> "ErrStore", queue |-> <<>>]
    ELSE IF st[queueID] = NoDoc THEN [err |-> "ErrNoDocuments", queue |-> <<>>]
    ELSE [err |-> "nil", queue |-> st[queueID]]

\* setQueue: validity check, then UpdateOne($set queueList, upsert).
setQueue(st, queueID, queueList, fault) ==
    IF queueID \notin ValidQueues THEN [err |-> "ErrInvalidQueueID", store |-> st]
    ELSE IF fault = "update" THEN [err |-> "ErrStore", store |-> st]
    ELSE [err |-> "nil", store |-> [st EXCEPT ![queueID] = queueList]]

\* What a mutator does with the document it read: the error it returns
\* without writing, or the list it hands to setQueue.
NoWrite(e) == [write |-> FALSE, err |-> e, queue |-> <<>>]
DoWrite(l) == [write |-> TRUE, err |-> "nil", queue |-> l]

\* Variant: the already-present check is left out.
AppendDecideNoCheck(found, itemID) ==
    IF found.err = "ErrNoDocuments" THEN DoWrite(<<itemID>>)
    ELSE IF found.err # "nil" THEN NoWrite(found.err)
    ELSE DoWrite(Append(found.queue, itemID))

\* Variant: the new id is put at the head of the list.
AppendDecidePrepend(found, itemID) ==
    IF found.err = "ErrNoDocuments" THEN DoWrite(<<itemID>>)
    ELSE IF found.err # "nil" THEN NoWrite(found.err)
    ELSE IF contains(found.queue, itemID) THEN NoWrite("ErrIDAlreadyInQueue")
    ELSE DoWrite(<<itemID>> \o found.queue)

\* Variant: a missing document is an error, as it is for the readers.
AppendDecideNoCreate(found, itemID) ==
    IF found.err # "nil" THEN NoWrite(found.err)
    ELSE IF contains(found.queue, itemID) THEN NoWrite("ErrIDAlreadyInQueue")
    ELSE DoWrite(Append(found.queue, itemID))

\* AppendToQueue after its FindOne.
AppendDecide(found, itemID) ==
    IF found.err = "ErrNoDocuments" THEN DoWrite(<<itemID>>)
    ELSE IF found.err # "nil" THEN NoWrite(found.err)
    ELSE IF contains(found.queue, itemID) THEN NoWrite("ErrIDAlreadyInQueue")
    ELSE DoWrite(Append(found.queue, itemID))

\* slices.IndexFunc(queue, id == itemID): first index (1-based here), 0 if none.
IndexFunc(queue, itemID) ==
    IF contains(queue, itemID)
    THEN CHOOSE i \in 1..Len(queue) :
            queue[i] = itemID /\ \A k \in 1..(i-1) : queue[k] # itemID
    ELSE 0

\* Variant: the last element is moved into the hole (unordered removal).
SliceDeleteSwapLast(queue, index) ==
    IF index = Len(queue) THEN SubSeq(queue, 1, Len(queue) - 1)
    ELSE SubSeq([queue EXCEPT ![index] = queue[Len(queue)]], 1, Len(queue) - 1)

\* slices.Delete(queue, index, index+1)
SliceDelete(queue, index) ==
    SubSeq(queue, 1, index - 1) \o SubSeq(queue, index + 1, Len(queue))

\* Variant: the head of the list is removed whatever id was asked for.
DeleteDecidePopFirst(found, itemID) ==
    IF found.err # "nil" THEN NoWrite(found.err)
    ELSE IF Len(found.queue) = 0 THEN NoWrite("ErrInvalidOpOnEmptyQueue")
    ELSE IF IndexFunc(found.queue, itemID) = 0 THEN NoWrite("ErrIDNotFoundInQueue")
    ELSE DoWrite(SubSeq(found.queue, 2, Len(found.queue)))

\* DeleteFromQueue after its FindOne.
DeleteDecide(found, itemID) ==
    IF found.err # "nil" THEN NoWrite(found.err)
    ELSE IF Len(found.queue) = 0 THEN NoWrite("ErrInvalidOpOnEmptyQueue")
    ELSE IF IndexFunc(found.queue, itemID) = 0 THEN NoWrite("ErrIDNotFoundInQueue")
    ELSE DoWrite(SliceDelete(found.queue, IndexFunc(found.queue, itemID)))

\* The write a mutator performs after its decision, against store st.
Commit(st, queueID, d, fault) ==
    IF d.write THEN setQueue(st, queueID, d.queue, fault)
    ELSE [err |-> d.err, store |-> st]

\* QueueListManager.AppendToQueue as one call: [err, store].
AppendToQueue(st, queueID, itemID, fault) ==
    IF queueID \notin ValidQueues THEN [err |-> "ErrInvalidQueueID", store |-> st]
    ELSE Commit(st, queueID, AppendDecide(FindOne(st, queueID, fault), itemID), fault)

\* QueueListManager.DeleteFromQueue as one call: [err, store].
DeleteFromQueue(st, queueID, itemID, fault) ==
    IF queueID \notin ValidQueues THEN [err |-> "ErrInvalidQueueID", store |-> st]
    ELSE Commit(st, queueID, DeleteDecide(FindOne(st, queueID, fault), itemID), fault)

\* Indices (1-based) at which itemID occurs.
Occurrences(queue, itemID) == {i \in 1..Len(queue) : queue[i] = itemID}

\* QueueListManager.GetQueuePosition: [err, position (zero-based), size].
PosErr(e) == [err |-> e, position |-> 0, size |-> 0]

GetQueuePosition(st, queueID, itemID, fault) ==
    IF queueID \notin ValidQueues THEN PosErr("ErrInvalidQueueID")
    ELSE LET found == FindOne(st, queueID, fault)
             occ == Occurrences(found.queue, itemID)
         IN IF found.err # "nil" THEN PosErr(found.err)
            ELSE IF Cardinality(occ) > 1 THEN PosErr("ErrMultipleIDsInQueue")
            ELSE IF occ = {} THEN PosErr("ErrIDNotFoundInQueue")
            ELSE [err |-> "nil",
                  position |-> (CHOOSE i \in occ : TRUE) - 1,
                  size |-> Len(found.queue)]

\* QueueListManager.GetQueueSize: [err, size].
GetQueueSize(st, queueID, fault) ==
    IF queueID \notin ValidQueues THEN [err |-> "ErrInvalidQueueID", size |-> 0]
    ELSE LET found == FindOne(st, queueID, fault)
         IN IF found.err # "nil" THEN [err |-> found.err, size |-> 0]
            ELSE [err |-> "nil", size |-> Len(found.queue)]

\* ClientService.verifyUserAccess outcomes (user store, outside the queues).
AccessResults == {"nil", "ErrUserNoAccess"}

\* A nil map[string]interface{} result.
NilReport == [nil |-> TRUE]

NoStage == [err |-> "nil", stageIdx |-> -1, stagePosition |-> -1, stageSize |-> -1]

\* GetSceneProgress, loop iterations idx >= 1 (the stage queues).  idx is the
\* 1-based index into queueNames; stageIdx keeps Go's zero-based value.
\* The call site binds `size, position, err := GetQueuePosition(...)`, and
\* GetQueuePosition returns (position, size, err).
RECURSIVE StageScan(_, _, _, _)
StageScan(st, sceneID, idx, faultAt) ==
    IF idx > Len(queueNames) THEN NoStage
    ELSE LET r == GetQueuePosition(st, queueNames[idx], sceneID,
                                   IF faultAt = idx THEN "find" ELSE "none")
             size == r.position
             position == r.size
         IN IF r.err # "nil" /\ r.err # "ErrIDNotFoundInQueue"
            THEN [NoStage EXCEPT !.err = r.err]
            ELSE IF r.err = "nil"
            THEN [err |-> "nil", stageIdx |-> idx - 1,
                  stagePosition |-> position, stageSize |-> size]
            ELSE StageScan(st, sceneID, idx + 1, faultAt)

GetSceneProgressNoEarlyReturn(st, sceneID, access, faultAt) ==
    IF access # "nil" THEN [err |-> access, report |-> NilReport]
    ELSE LET overall == GetQueuePosition(st, queueNames[1], sceneID,
                                         IF faultAt = 1 THEN "find" ELSE "none")
             processing == overall.err # "ErrIDNotFoundInQueue"
             stage == StageScan(st, sceneID, 2, faultAt)
         IN IF overall.err # "nil" /\ overall.err # "ErrIDNotFoundInQueue"
            THEN [err |-> overall.err, report |-> NilReport]
            ELSE IF stage.err # "nil"
            THEN [err |-> stage.err, report |-> NilReport]
            ELSE IF stage.stageIdx = -1
            THEN [err |-> "nil", report |-> [processing |-> processing]]
            ELSE [err |-> "nil",
                  report |-> [processing |-> processing,
                              stage |-> queueNames[stage.stageIdx + 1],
                              stage_position |-> stage.stagePosition,
                              stage_size |-> stage.stageSize]]

\* ClientService.GetSceneProgress: [err, report].  access is the outcome of
\* verifyUserAccess, faultAt the queueNames index (0: none) whose FindOne fails.
\* Indexing queueNames with stageIdx = -1 is a Go run-time panic.
GetSceneProgress(st, sceneID, access, faultAt) ==
    IF access # "nil" THEN [err |-> access, report |-> NilReport]
    ELSE LET overall == GetQueuePosition(st, queueNames[1], sceneID,
                                         IF faultAt = 1 THEN "find" ELSE "none")
             processing == overall.err # "ErrIDNotFoundInQueue"
             stage == StageScan(st, sceneID, 2, faultAt)
         IN IF overall.err # "nil" /\ overall.err # "ErrIDNotFoundInQueue"
            THEN [err |-> overall.err, report |-> NilReport]
            ELSE IF ~processing
            THEN [err |-> "nil", report |-> [processing |-> FALSE]]
            ELSE IF stage.err # "nil"
            THEN [err |-> stage.err, report |-> NilReport]
            ELSE IF stage.stageIdx = -1
            THEN [err |-> "panic", report |-> NilReport]
            ELSE [err |-> "nil",
                  report |-> [processing |-> processing,
                              overall_position |-> overall.position,
                              overall_size |-> overall.size,
                              stage |-> queueNames[stage.stageIdx + 1],
                              stage_position |-> stage.stagePosition,
                              stage_size |-> stage.stageSize]]

\* ------------------------------------------------------------------ state
VARIABLES
    store,   \* nerfdb.queues: queue name -> NoDoc or the stored list
    call,    \* the call whose result is being returned: inputs, store before,
             \* outcome; NoCall while no result is outstanding
    prev,    \* the call returned last, when it was a successful append
    inflight, \* SpecConc: per client, the mutator call that has read its queue
              \* document and has not yet written it back
    started,  \* SpecConc: number of such calls begun so far
    removed,  \* SpecConc: the ids a DeleteFromQueue has taken out of the overall
              \* queue and no AppendToQueue of that id has put back since
    scenes,  \* SpecPipe: nerfdb.scenes, the job records
    broker,  \* SpecPipe: the four broker queues
    pub,     \* SpecPipe: per job, the PublishSFMJob call of its upload
    sc,      \* SpecPipe: the consumer goroutine of sfm-out (processSFMJob)
    nc,      \* SpecPipe: the consumer goroutine of nerf-out (processNERFJob)
    faults,  \* SpecPipe: number of store, broker and download failures so far
    wrote,   \* SpecPipe: per consumer, the queue documents its calls have changed
    connection, \* SpecSup: the field AMPQService.connection
    channel,    \* SpecSup: the field AMPQService.channel
    rc,         \* SpecSup: per consumed queue, its runConsumer goroutine
    stopChan,   \* SpecSup: the channel AMPQService.stopChan
    wg,         \* SpecSup: the counter of AMPQService.wg
    shutdown,   \* SpecSup: position of the Shutdown call
    panicked    \* SpecSup: the run-time panic that ended the process, if any

\* What the sequential handlers leave alone.
concVars == <<inflight, started, removed>>

\* The state of the job pipeline beside the queue store.
pipeVars == <<scenes, broker, pub, sc, nc, faults, wrote>>

\* The state of the broker connection supervisor.
supVars == <<connection, channel, rc, stopChan, wg, shutdown, panicked>>

vars == <<store, call, prev, concVars, pipeVars, supVars>>

\* Two concurrent callers of the store (a publisher and a consumer, or two
\* publishers).
Clients == {"c1", "c2"}

NoCall == [op |-> "none"]

\* Number of ids stored over all queues.
Total(st) == Len(QueueOf(st, queueNames[1])) + Len(QueueOf(st, queueNames[2]))
             + Len(QueueOf(st, queueNames[3]))

\* ------------------------------------------------- job pipeline: values
\* The jobs uploaded during a run, numbered in the order of their uploads.
PipeJobs == 1..NumPipeJobs

\* NerfTrainingConfig.OutputTypes and .SaveIterations of the job records, as
\* processNERFJob reads them (output types of the gaussian training mode).
outputTypes == <<"splat_cloud", "video">>
saveIterations == <<1>>

\* The bodies a nerf worker may send to nerf-out, by name.
Payloads == {"valid", "partial", "badType", "badIter"}

\* The bodies that pass the checks of processNERFJob.
ValidPayloads == {"valid", "partial"}

\* NerfJobResult.FilePaths of a body, as its set of (output type, iteration)
\* keys: all requested, some of the requested, one with a type that was not
\* requested, one with an
\* iteration that was not requested (none when the body was not decoded).
FilePaths(payload) ==
    CASE payload = "valid"   -> {<<"splat_cloud", 1>>, <<"video", 1>>}
      [] payload = "partial" -> {<<"splat_cloud", 1>>}
      [] payload = "badType" -> {<<"splat_cloud", 1>>, <<"point_cloud", 1>>}
      [] payload = "badIter" -> {<<"splat_cloud", 1>>, <<"splat_cloud", 2>>}
      [] OTHER               -> {}

\* The messages of nerf-out.
NerfMsgs == [id : PipeJobs, payload : Payloads]

\* The training configuration the upload stores with a job.
trainingConfig == [outputTypes |-> outputTypes, saveIterations |-> saveIterations]

\* A TrainingConfig with no nerf training configuration.
emptyConfig == [outputTypes |-> <<>>, saveIterations |-> <<>>]

\* A job record as created by the upload: config set, no sfm, no nerf.  The
\* nerf field is <<>> for a nil pointer and <<entries>> once set.
NewScene == [sfm |-> FALSE, nerf |-> <<>>, config |-> trainingConfig]

\* A consumer goroutine between two deliveries; res is the acknowledgement
\* given to the last delivery, id (and payload) what that delivery carried,
\* acks the calls of Ack and Nack made on that delivery, in order; retry
\* tells that the record of the job had its structure when the delivery came
\* (each job has one message in sfm-out, so an earlier delivery of it has
\* stored the structure and has then failed in PublishNERFJob).
\* err is the error processSFMJob returned for it; nerf and config are the
\* fields of the copy GetScene has loaded (config is <<>> while no record is
\* loaded, else <<c>>).
IdleSfm ==
    [pc |-> "idle", id |-> 0, res |-> "none", delErr |-> "nil", nerf |-> <<>>,
     acks |-> <<>>, retry |-> FALSE, err |-> "nil", config |-> <<>>]

IdleNerf == [pc |-> "idle", id |-> 0, payload |-> "none", res |-> "none"]

InitPipe ==
    /\ scenes = [j \in PipeJobs |-> NewScene]
    /\ broker = [sfmIn |-> [j \in PipeJobs |-> 0],
                 sfmWorked |-> [j \in PipeJobs |-> 0],
                 sfmOut |-> [j \in PipeJobs |-> 0],
                 nerfIn |-> [j \in PipeJobs |-> 0],
                 nerfWorked |-> [j \in PipeJobs |-> 0],
                 nerfOut |-> [m \in NerfMsgs |-> 0],
                 nerfAcked |-> {},
                 undecodable |-> [c \in {"sfm-out", "nerf-out"} |-> 0]]
    /\ pub = [j \in PipeJobs |-> [pc |-> "start", k |-> 0, err |-> "nil"]]
    /\ sc = IdleSfm
    /\ nc = IdleNerf
    /\ faults = 0
    /\ wrote = [c \in {"sfm-out", "nerf-out"} |-> {}]

\* --------------------------------------------------- supervisor: values
\* startConsumers: one runConsumer goroutine per result queue.
Consumers == {"sfm-out", "nerf-out"}

\* connect: the dial window (time.Minute / 4) and the pause between two
\* dials, in seconds.
ConnectWindow == 15
DialSleep == 1

\* connect: the queues it declares, in program order.
connectQueues == <<"sfm-in", "nerf-in", "sfm-out", "nerf-out">>

\* NewAMPQService returns the service after connect has succeeded and
\* startConsumers was launched: the connection is live, both loops are at
\* their select, nothing was added to the WaitGroup.  In a loop's record,
\* elapsed is the time its connect call has slept and declared the number of
\* queues that call has declared.
InitSup ==
    /\ connection = "open"
    /\ channel = "open"
    /\ rc = [c \in Consumers |->
                [pc |-> "select", elapsed |-> 0, declared |-> 0, fails |-> 0]]
    /\ stopChan = "open"
    /\ wg = 0
    /\ shutdown = "idle"
    /\ panicked = "none"

\* After construction the collection holds no queue document, no message
\* was published and both consumers wait for a delivery.
Init ==
    /\ store = [q \in ValidQueues |-> NoDoc]
    /\ call = NoCall
    /\ prev = NoCall
    /\ inflight = [c \in Clients |-> NoCall]
    /\ started = 0
    /\ removed = {}
    /\ InitPipe
    /\ InitSup

CallAppendToQueue ==
    \E queueID \in QueueIDs, itemID \in Jobs, fault \in Faults :
        LET r == AppendToQueue(store, queueID, itemID, fault)
        IN /\ call = NoCall
           /\ Total(store) < MaxTotal
           /\ store' = r.store
           /\ call' = [op |-> "append", queueID |-> queueID, itemID |-> itemID,
                       fault |-> fault, pre |-> store, err |-> r.err]
           /\ UNCHANGED <<prev, concVars, pipeVars, supVars>>

CallDeleteFromQueue ==
    \E queueID \in QueueIDs, itemID \in Jobs, fault \in Faults :
        LET r == DeleteFromQueue(store, queueID, itemID, fault)
        IN /\ call = NoCall
           /\ store' = r.store
           /\ call' = [op |-> "delete", queueID |-> queueID, itemID |-> itemID,
                       fault |-> fault, pre |-> store, err |-> r.err]
           /\ UNCHANGED <<prev, concVars, pipeVars, supVars>>

CallGetQueuePosition ==
    \E queueID \in QueueIDs, itemID \in Jobs, fault \in {"none", "find"} :
        LET r == GetQueuePosition(store, queueID, itemID, fault)
        IN /\ call = NoCall
           /\ call' = [op |-> "position", queueID |-> queueID, itemID |-> itemID,
                       fault |-> fault, pre |-> store, err |-> r.err,
                       position |-> r.position, size |-> r.size]
           /\ UNCHANGED <<store, prev, concVars, pipeVars, supVars>>

CallGetQueueSize ==
    \E queueID \in QueueIDs, fault \in {"none", "find"} :
        LET r == GetQueueSize(store, queueID, fault)
        IN /\ call = NoCall
           /\ call' = [op |-> "size", queueID |-> queueID,
                       fault |-> fault, pre |-> store, err |-> r.err,
                       size |-> r.size]
           /\ UNCHANGED <<store, prev, concVars, pipeVars, supVars>>

\* The environment's choices for one GetSceneProgress request: access refused,
\* or access granted and the FindOne of at most one queue failing.
ProgressInputs ==
    {[access |-> "ErrUserNoAccess", faultAt |-> 0]}
    \cup {[access |-> "nil", faultAt |-> k] : k \in 0..Len(queueNames)}

CallGetSceneProgress ==
    \E sceneID \in Jobs, in \in ProgressInputs :
        LET r == GetSceneProgress(store, sceneID, in.access, in.faultAt)
        IN /\ call = NoCall
           /\ call' = [op |-> "progress", itemID |-> sceneID, access |-> in.access,
                       faultAt |-> in.faultAt, pre |-> store, err |-> r.err,
                       report |-> r.report]
           /\ UNCHANGED <<store, prev, concVars, pipeVars, supVars>>

\* The outstanding call returns to its caller.
Return ==
    /\ call # NoCall
    /\ prev' = IF call.op = "append" /\ call.err = "nil" THEN call ELSE NoCall
    /\ call' = NoCall
    /\ UNCHANGED <<store, concVars, pipeVars, supVars>>

Next ==
    \/ CallAppendToQueue
    \/ CallDeleteFromQueue
    \/ CallGetQueuePosition
    \/ CallGetQueueSize
    \/ CallGetSceneProgress
    \/ Return

Spec == Init /\ [][Next]_vars

\* ------------------------------------------------- interleaved store calls
\* A mutator is two store round trips: FindOne, then setQueue's UpdateOne.
\* Between them the caller holds the list it is about to write.

\* First half of AppendToQueue / DeleteFromQueue by client c: validity check,
\* FindOne, and the decision.  A call that returns without writing (invalid
\* name, failed FindOne, id already present, id not found, empty queue)
\* ends here and leaves the store alone.
ConcRead(c) ==
    \E op \in {"append", "delete"}, queueID \in QueueIDs, itemID \in Jobs,
       fault \in {"none", "find"} :
        LET d == IF queueID \notin ValidQueues THEN NoWrite("ErrInvalidQueueID")
                 ELSE IF op = "append"
                 THEN AppendDecide(FindOne(store, queueID, fault), itemID)
                 ELSE DeleteDecide(FindOne(store, queueID, fault), itemID)
        IN /\ inflight[c] = NoCall
           /\ started < MaxConcCalls
           /\ op = "append" => Total(store) < MaxTotal
           /\ inflight' = IF d.write
                          THEN [inflight EXCEPT ![c] =
                                   [op |-> op, queueID |-> queueID,
                                    itemID |-> itemID, queueList |-> d.queue]]
                          ELSE inflight
           /\ started' = IF d.write THEN started + 1 ELSE started
           /\ UNCHANGED <<store, removed, call, prev, pipeVars, supVars>>

\* Second half: setQueue writes the list the caller holds over whatever the
\* document holds by now.
ConcWrite(c) ==
    \E fault \in {"none", "update"} :
        LET r == setQueue(store, inflight[c].queueID, inflight[c].queueList, fault)
        IN /\ inflight[c] # NoCall
           /\ store' = r.store
           /\ removed' = IF r.err # "nil" \/ inflight[c].queueID # queueNames[1]
                         THEN removed
                         ELSE IF inflight[c].op = "delete"
                         THEN removed \cup {inflight[c].itemID}
                         ELSE removed \ {inflight[c].itemID}
           /\ inflight' = [inflight EXCEPT ![c] = NoCall]
           /\ UNCHANGED <<call, prev, started, pipeVars, supVars>>

NextConc ==
    \/ \E c \in Clients : ConcRead(c)
    \/ \E c \in Clients : ConcWrite(c)

SpecConc == Init /\ [][NextConc]_vars

\* ------------------------------------------------ job pipeline: actions
\* Every handler is split at its calls to the broker, the queue store and the
\* scene store; one action is one such call together with the code up to the
\* next one.  A call to the queue store is one step here (its two round trips
\* are interleaved in SpecConc).  Failures of the broker, the stores and the
\* downloads are inputs; MaxFaults bounds how many occur in a run.

\* The queue documents that differ between two states of the store.
Written(st, st2) == {q \in ValidQueues : st2[q] # st[q]}

CanFail(failed) == failed => faults < MaxFaults

Count(failed) == IF failed THEN faults + 1 ELSE faults

PublishSFMJobQueuesSwapped == <<"queue_list", "sfm_list">>

\* PublishSFMJob: the queues it appends the job to, in program order.
PublishSFMJobQueues == <<"sfm_list", "queue_list">>

AfterPublishIgnoreErr(ok) == [pc |-> "append", k |-> 1, err |-> "nil"]

\* PublishSFMJob after PublishWithContext: return the error, or go on to the
\* first append.
AfterPublish(ok) ==
    IF ok THEN [pc |-> "append", k |-> 1, err |-> "nil"]
    ELSE [pc |-> "done", k |-> 0, err |-> "ErrPublish"]

AfterAppendIgnoreErr(k, err) ==
    IF k < Len(PublishSFMJobQueues)
    THEN [pc |-> "append", k |-> k + 1, err |-> "nil"]
    ELSE [pc |-> "done", k |-> k, err |-> "nil"]

\* PublishSFMJob after its k-th AppendToQueue: return the error, go on to the
\* next append, or return nil.
AfterAppend(k, err) ==
    IF err # "nil" THEN [pc |-> "done", k |-> k, err |-> err]
    ELSE IF k < Len(PublishSFMJobQueues)
    THEN [pc |-> "append", k |-> k + 1, err |-> "nil"]
    ELSE [pc |-> "done", k |-> k, err |-> "nil"]

\* PublishSFMJob, up to and including the publish to sfm-in.  The uploads
\* come one after another: the call for a job starts when the call for the
\* job before it has returned (concurrent callers of the store: SpecConc).
PublishSFMJob_Publish(j) ==
    \E ok \in BOOLEAN :
        /\ pub[j].pc = "start"
        /\ j > 1 => pub[j - 1].pc = "done"
        /\ CanFail(~ok)
        /\ pub' = [pub EXCEPT ![j] = AfterPublish(ok)]
        /\ broker' = IF ok THEN [broker EXCEPT !.sfmIn[j] = @ + 1] ELSE broker
        /\ faults' = Count(~ok)
        /\ UNCHANGED <<wrote, store, scenes, sc, nc, call, prev, concVars, supVars>>

\* PublishSFMJob: its next AppendToQueue and what follows it.
PublishSFMJob_Append(j) ==
    \E fault \in Faults :
        /\ pub[j].pc = "append"
        /\ CanFail(fault # "none")
        /\ LET r == AppendToQueue(store, PublishSFMJobQueues[pub[j].k], j, fault)
           IN /\ store' = r.store
              /\ pub' = [pub EXCEPT ![j] = AfterAppend(pub[j].k, r.err)]
        /\ faults' = Count(fault # "none")
        /\ UNCHANGED <<wrote, scenes, broker, sc, nc, call, prev, concVars, supVars>>

\* The sfm worker takes a message of sfm-in and sends its result to sfm-out.
SfmWorker(j) ==
    /\ broker.sfmWorked[j] < broker.sfmIn[j]
    /\ broker' = [broker EXCEPT !.sfmWorked[j] = @ + 1, !.sfmOut[j] = @ + 1]
    /\ UNCHANGED <<wrote, store, scenes, pub, sc, nc, faults, call, prev, concVars, supVars>>

\* A body that json.Unmarshal cannot decode (or whose id is no ObjectID hex)
\* is put into sfm-out or nerf-out; it counts as a failure.
Garble(c) ==
    /\ CanFail(TRUE)
    /\ broker' = [broker EXCEPT !.undecodable[c] = @ + 1]
    /\ faults' = Count(TRUE)
    /\ UNCHANGED <<wrote, store, scenes, pub, sc, nc, call, prev, concVars, supVars>>

\* The nerf worker takes a message of nerf-in and sends a result to nerf-out.
\* A body that does not match the job's config counts as a failure.  Its
\* first result for a job lists all requested outputs; a later result for the
\* same job may list only some of them.
NerfWorker(j) ==
    \E payload \in Payloads :
        /\ broker.nerfWorked[j] < broker.nerfIn[j]
        /\ payload = "partial" => broker.nerfWorked[j] > 0
        /\ CanFail(payload \notin ValidPayloads)
        /\ broker' = [broker EXCEPT !.nerfWorked[j] = @ + 1,
                                    !.nerfOut[[id |-> j, payload |-> payload]] = @ + 1]
        /\ faults' = Count(payload \notin ValidPayloads)
        /\ UNCHANGED <<wrote, store, scenes, pub, sc, nc, call, prev, concVars, supVars>>

consumeRequeueFalse == FALSE

\* consume: the requeue argument of its msg.Nack(false, true).
consumeRequeue == TRUE

\* A queue's count of a message that consume has negatively acknowledged
\* before any other call was made on the delivery; n counts the message
\* while it is being processed.
AfterConsumeNack(n) == IF consumeRequeue THEN n ELSE n - 1

consumeAckAlways(err) == "Ack"

\* consume, after processFunc has returned: msg.Nack(false, true) on an error,
\* msg.Ack(false) otherwise.
consumeAck(err) == IF err # "nil" THEN "Nack" ELSE "Ack"

\* processSFMJob calls d.Nack(false, true) and returns the error; consume
\* then makes its own call.  The delivery goes back to its queue.
SfmNack ==
    [IdleSfm EXCEPT !.id = sc.id, !.res = "nack", !.err = "err",
                    !.acks = <<"Nack", consumeAck("err")>>]

SfmRequeue == [broker EXCEPT !.sfmOut[sc.id] = @ + 1]

processSFMJobQueueOverall == "queue_list"

\* processSFMJob: the stage queue it removes the job from.
processSFMJobQueue == "sfm_list"

PublishNERFJobQueueStage1 == "sfm_list"

\* PublishNERFJob: the queue it appends the job to.
PublishNERFJobQueue == "nerf_list"

\* processSFMJob from the delivery to GetScene: decoding, the frame downloads
\* and the read of the job record.  Nothing is written; on an error the
\* delivery is requeued (a failed download returns without a call of d.Nack).
processSFMJob_Receive ==
    \E j \in PipeJobs, outcome \in {"nil", "fetch", "GetScene"} :
        /\ sc.pc = "idle"
        /\ broker.sfmOut[j] > 0
        /\ CanFail(outcome # "nil")
        /\ IF outcome = "nil"
           THEN /\ sc' = [IdleSfm EXCEPT !.pc = "SetScene", !.id = j,
                                         !.nerf = scenes[j].nerf,
                                         !.config = <<scenes[j].config>>,
                                         !.retry = scenes[j].sfm]
                /\ broker' = [broker EXCEPT !.sfmOut[j] = @ - 1]
           ELSE /\ sc' = [IdleSfm EXCEPT
                             !.id = j, !.res = "nack", !.err = outcome,
                             !.acks = IF outcome = "fetch"
                                      THEN <<consumeAck(outcome)>>
                                      ELSE <<"Nack", consumeAck(outcome)>>]
                /\ broker' = IF outcome = "fetch"
                             THEN [broker EXCEPT !.sfmOut[j] = AfterConsumeNack(@)]
                             ELSE broker
        /\ faults' = Count(outcome # "nil")
        /\ UNCHANGED <<wrote, store, scenes, pub, nc, call, prev, concVars, supVars>>

\* Variant: the scene handed to SetScene carries a fresh, empty config.
SetSceneConfigReset(copy, current) == emptyConfig

\* SetScene, the config field of its $set: the config of the scene it was
\* handed; a nil pointer is omitted and leaves the stored config alone.
SetSceneConfig(copy, current) == IF copy = <<>> THEN current ELSE copy[1]

\* Variant: the error of SetScene is logged and processing goes on.
processSFMJob_SetSceneIgnoreErr ==
    \E ok \in BOOLEAN :
        /\ sc.pc = "SetScene"
        /\ CanFail(~ok)
        /\ scenes' = IF ok
                     THEN [scenes EXCEPT ![sc.id] =
                              [sfm |-> TRUE,
                               nerf |-> IF sc.nerf # <<>> THEN sc.nerf ELSE @.nerf,
                               config |-> SetSceneConfig(sc.config, @.config)]]
                     ELSE scenes
        /\ sc' = [sc EXCEPT !.pc = "DeleteFromQueue"]
        /\ faults' = Count(~ok)
        /\ UNCHANGED <<wrote, store, broker, pub, nc, call, prev, concVars, supVars>>

\* processSFMJob with a body that cannot be decoded: d.Nack(false, true),
\* return the error; consume then makes its own call.  No id was decoded.
processSFMJob_Undecodable ==
    /\ sc.pc = "idle"
    /\ broker.undecodable["sfm-out"] > 0
    /\ sc' = [IdleSfm EXCEPT !.res = "nack", !.err = "decode",
                             !.acks = <<"Nack", consumeAck("decode")>>]
    /\ UNCHANGED <<wrote, store, scenes, broker, pub, nc, faults, call, prev,
                   concVars, supVars>>

\* processSFMJob: SetScene writes the record read by GetScene with sfm (and the
\* video size) set; a nil nerf pointer is omitted from the $set.
processSFMJob_SetScene ==
    \E ok \in BOOLEAN :
        /\ sc.pc = "SetScene"
        /\ CanFail(~ok)
        /\ IF ok
           THEN /\ scenes' = [scenes EXCEPT ![sc.id] =
                                 [sfm |-> TRUE,
                                  nerf |-> IF sc.nerf # <<>> THEN sc.nerf ELSE @.nerf,
                                  config |-> SetSceneConfig(sc.config, @.config)]]
                /\ sc' = [sc EXCEPT !.pc = "DeleteFromQueue"]
                /\ broker' = broker
           ELSE /\ scenes' = scenes
                /\ sc' = SfmNack
                /\ broker' = SfmRequeue
        /\ faults' = Count(~ok)
        /\ UNCHANGED <<wrote, store, pub, nc, call, prev, concVars, supVars>>

\* processSFMJob: DeleteFromQueue on the stage-1 queue; its error is logged
\* and processing goes on.
processSFMJob_DeleteFromQueue ==
    \E fault \in Faults :
        /\ sc.pc = "DeleteFromQueue"
        /\ CanFail(fault # "none")
        /\ LET r == DeleteFromQueue(store, processSFMJobQueue, sc.id, fault)
           IN /\ store' = r.store
              /\ wrote' = [wrote EXCEPT !["sfm-out"] = @ \cup Written(store, r.store)]
              /\ sc' = [sc EXCEPT !.pc = "PublishNERFJob", !.delErr = r.err]
        /\ faults' = Count(fault # "none")
        /\ UNCHANGED <<scenes, broker, pub, nc, call, prev, concVars, supVars>>

\* PublishNERFJob (called by processSFMJob), up to and including the publish
\* to nerf-in; on an error processSFMJob returns it and the delivery is
\* requeued.
PublishNERFJob_Publish ==
    \E ok \in BOOLEAN :
        /\ sc.pc = "PublishNERFJob"
        /\ CanFail(~ok)
        /\ IF ok
           THEN /\ broker' = [broker EXCEPT !.nerfIn[sc.id] = @ + 1]
                /\ sc' = [sc EXCEPT !.pc = "AppendToQueue"]
           ELSE /\ broker' = SfmRequeue
                /\ sc' = SfmNack
        /\ faults' = Count(~ok)
        /\ UNCHANGED <<wrote, store, scenes, pub, nc, call, prev, concVars, supVars>>

\* PublishNERFJob: its AppendToQueue; then processSFMJob acknowledges the
\* delivery and returns nil, or returns the error.
PublishNERFJob_Append ==
    \E fault \in Faults :
        /\ sc.pc = "AppendToQueue"
        /\ CanFail(fault # "none")
        /\ LET r == AppendToQueue(store, PublishNERFJobQueue, sc.id, fault)
           IN /\ store' = r.store
              /\ wrote' = [wrote EXCEPT !["sfm-out"] = @ \cup Written(store, r.store)]
              /\ IF r.err = "nil"
                 THEN /\ sc' = [sc EXCEPT !.pc = "idle", !.res = "ack",
                                          !.acks = <<"Ack", consumeAck("nil")>>]
                      /\ broker' = broker
                 ELSE /\ sc' = SfmNack
                      /\ broker' = SfmRequeue
        /\ faults' = Count(fault # "none")
        /\ UNCHANGED <<scenes, pub, nc, call, prev, concVars, supVars>>

NerfNack == [nc EXCEPT !.pc = "idle", !.res = "nack"]

\* The message of the delivery the stage-2 consumer holds (messages are
\* told apart by their content).
NerfMsg == [id |-> nc.id, payload |-> nc.payload]

NerfRequeue == [broker EXCEPT !.nerfOut[NerfMsg] = AfterConsumeNack(@ + 1)]

\* At-least-once delivery: the broker delivers again a message of nerf-out
\* whose acknowledgement it has had (a failure of the broker link).
NerfRedeliver ==
    \E m \in broker.nerfAcked :
        /\ CanFail(TRUE)
        /\ broker' = [broker EXCEPT !.nerfOut[m] = @ + 1]
        /\ faults' = Count(TRUE)
        /\ UNCHANGED <<wrote, store, scenes, pub, sc, nc, call, prev, concVars, supVars>>

ValidateFilePathsTypesOnly(entries) ==
    IF \E e \in entries : ~contains(outputTypes, e[1]) THEN "ErrOutputType"
    ELSE "nil"

\* processNERFJob, the checks inside its loops over data.FilePaths: the first
\* output type or iteration that the job's config does not list is an error.
ValidateFilePaths(entries) ==
    IF \E e \in entries : ~contains(outputTypes, e[1]) THEN "ErrOutputType"
    ELSE IF \E e \in entries : ~contains(saveIterations, e[2]) THEN "ErrIteration"
    ELSE "nil"

\* processNERFJob, the switch that fills the maps of the fresh Nerf value:
\* one entry per (output type, iteration) of the four known types.
RecordNerf(entries) ==
    {e \in entries : e[1] \in {"splat_cloud", "point_cloud", "video", "model"}}

\* processNERFJob from the delivery to the end of its loops: decoding,
\* GetScene, the checks and the downloads.  The job record and the queues are
\* not written; on an error the delivery is requeued.
processNERFJob_Receive ==
    \E m \in NerfMsgs, outcome \in {"nil", "GetScene", "fetch"} :
        /\ nc.pc = "idle"
        /\ broker.nerfOut[m] > 0
        /\ CanFail(outcome # "nil")
        /\ LET err == IF outcome # "nil" THEN outcome
                      ELSE ValidateFilePaths(FilePaths(m.payload))
           IN IF err = "nil"
              THEN /\ nc' = [pc |-> "SetNerf", id |-> m.id,
                             payload |-> m.payload, res |-> "none"]
                   /\ broker' = [broker EXCEPT !.nerfOut[m] = @ - 1]
              ELSE /\ nc' = [pc |-> "idle", id |-> m.id,
                             payload |-> m.payload, res |-> "nack"]
                   /\ broker' = [broker EXCEPT !.nerfOut[m] = AfterConsumeNack(@)]
        /\ faults' = Count(outcome # "nil")
        /\ UNCHANGED <<wrote, store, scenes, pub, sc, call, prev, concVars, supVars>>

\* processNERFJob with a body that cannot be decoded: it returns the error
\* and consume negatively acknowledges the delivery.  No id was decoded.
processNERFJob_Undecodable ==
    /\ nc.pc = "idle"
    /\ broker.undecodable["nerf-out"] > 0
    /\ nc' = [IdleNerf EXCEPT !.payload = "undecodable", !.res = "nack"]
    /\ broker' = [broker EXCEPT !.undecodable["nerf-out"] = AfterConsumeNack(@)]
    /\ UNCHANGED <<wrote, store, scenes, pub, sc, faults, call, prev, concVars, supVars>>

\* processNERFJob: SetNerf replaces the nerf field of the job record.
processNERFJob_SetNerf ==
    \E ok \in BOOLEAN :
        /\ nc.pc = "SetNerf"
        /\ CanFail(~ok)
        /\ IF ok
           THEN /\ scenes' = [scenes EXCEPT ![nc.id].nerf =
                                 <<RecordNerf(FilePaths(nc.payload))>>]
                /\ nc' = [nc EXCEPT !.pc = "DeleteStage"]
                /\ broker' = broker
           ELSE /\ scenes' = scenes
                /\ nc' = NerfNack
                /\ broker' = NerfRequeue
        /\ faults' = Count(~ok)
        /\ UNCHANGED <<wrote, store, pub, sc, call, prev, concVars, supVars>>

\* processNERFJob: DeleteFromQueue on the stage-2 queue.
processNERFJob_DeleteStage ==
    \E fault \in Faults :
        /\ nc.pc = "DeleteStage"
        /\ CanFail(fault # "none")
        /\ LET r == DeleteFromQueue(store, queueNames[3], nc.id, fault)
           IN /\ store' = r.store
              /\ wrote' = [wrote EXCEPT !["nerf-out"] = @ \cup Written(store, r.store)]
              /\ IF r.err = "nil"
                 THEN /\ nc' = [nc EXCEPT !.pc = "DeleteOverall"]
                      /\ broker' = broker
                 ELSE /\ nc' = NerfNack
                      /\ broker' = NerfRequeue
        /\ faults' = Count(fault # "none")
        /\ UNCHANGED <<scenes, pub, sc, call, prev, concVars, supVars>>

\* processNERFJob: DeleteFromQueue on the overall queue, then return nil;
\* consume acknowledges the delivery.
processNERFJob_DeleteOverall ==
    \E fault \in Faults :
        /\ nc.pc = "DeleteOverall"
        /\ CanFail(fault # "none")
        /\ LET r == DeleteFromQueue(store, queueNames[1], nc.id, fault)
           IN /\ store' = r.store
              /\ wrote' = [wrote EXCEPT !["nerf-out"] = @ \cup Written(store, r.store)]
              /\ IF r.err = "nil"
                 THEN /\ nc' = [nc EXCEPT !.pc = "idle", !.res = "ack"]
                      /\ broker' = [broker EXCEPT !.nerfAcked = @ \cup {NerfMsg}]
                 ELSE /\ nc' = NerfNack
                      /\ broker' = NerfRequeue
        /\ faults' = Count(fault # "none")
        /\ UNCHANGED <<scenes, pub, sc, call, prev, concVars, supVars>>

NextPipe ==
    \/ \E j \in PipeJobs : PublishSFMJob_Publish(j)
    \/ \E j \in PipeJobs : PublishSFMJob_Append(j)
    \/ \E j \in PipeJobs : SfmWorker(j)
    \/ \E j \in PipeJobs : NerfWorker(j)
    \/ \E c \in {"sfm-out", "nerf-out"} : Garble(c)
    \/ processSFMJob_Receive
    \/ processSFMJob_Undecodable
    \/ processSFMJob_SetScene
    \/ processSFMJob_DeleteFromQueue
    \/ PublishNERFJob_Publish
    \/ PublishNERFJob_Append
    \/ processNERFJob_Receive
    \/ processNERFJob_Undecodable
    \/ processNERFJob_SetNerf
    \/ processNERFJob_DeleteStage
    \/ processNERFJob_DeleteOverall
    \/ NerfRedeliver

SpecPipe == Init /\ [][NextPipe]_vars

\* The pipeline with its scheduling: a handler that has begun goes on to its
\* next call, a worker answers every message it was sent, each consumer
\* goroutine keeps taking steps, and the broker delivers every message that
\* stays in a result queue.  Uploads and failures are not forced.
FairPipe ==
    /\ \A j \in PipeJobs : WF_vars(PublishSFMJob_Append(j))
    /\ \A j \in PipeJobs : WF_vars(SfmWorker(j))
    /\ \A j \in PipeJobs : WF_vars(NerfWorker(j))
    /\ \A j \in PipeJobs : SF_vars(processSFMJob_Receive /\ sc'.id = j)
    /\ WF_vars(processSFMJob_Undecodable)
    /\ WF_vars(processSFMJob_SetScene)
    /\ WF_vars(processSFMJob_DeleteFromQueue)
    /\ WF_vars(PublishNERFJob_Publish)
    /\ WF_vars(PublishNERFJob_Append)
    /\ \A m \in NerfMsgs :
          SF_vars(processNERFJob_Receive /\ nc'.id = m.id /\ nc'.payload = m.payload)
    /\ WF_vars(processNERFJob_Undecodable)
    /\ WF_vars(processNERFJob_SetNerf)
    /\ WF_vars(processNERFJob_DeleteStage)
    /\ WF_vars(processNERFJob_DeleteOverall)

SpecPipeLive == SpecPipe /\ FairPipe

\* -------------------------------------------------- supervisor: actions
\* The two runConsumer goroutines and Shutdown run concurrently and share
\* the fields connection, stopChan and wg without a lock; one action is one
\* read or write of a shared field, or one broker call, with the code around
\* it.  A run-time panic in any goroutine ends the process (the goroutine is
\* then at "panic").

Others == <<store, call, prev, concVars, pipeVars>>

\* consume returned an error: runConsumer logs it and sleeps.  fails counts
\* the consume calls in a row that ended before consuming (it saturates).
Failed(c) ==
    [rc EXCEPT ![c] = [pc |-> "sleep", elapsed |-> 0, declared |-> 0,
                       fails |-> IF rc[c].fails < MaxFails THEN rc[c].fails + 1
                                 ELSE MaxFails]]

\* runConsumer, top of its loop: return (deferred wg.Done) when stopChan is
\* closed, else call consume.  wg.Done on a zero counter panics.
runConsumer_Select(c) ==
    /\ panicked = "none"
    /\ rc[c].pc = "select"
    /\ IF stopChan = "closed"
       THEN /\ rc' = [rc EXCEPT ![c].pc = "returned"]
            /\ wg' = wg - 1
            /\ panicked' = IF wg - 1 < 0 THEN "negative WaitGroup counter"
                           ELSE panicked
       ELSE /\ rc' = [rc EXCEPT ![c].pc = "ensureConnection"]
            /\ UNCHANGED <<wg, panicked>>
    /\ UNCHANGED <<connection, channel, stopChan, shutdown, Others>>

\* consume -> ensureConnection: nothing to do when the connection field holds
\* a live connection, else connect.
ensureConnection(c) ==
    /\ panicked = "none"
    /\ rc[c].pc = "ensureConnection"
    /\ rc' = [rc EXCEPT ![c].pc = IF connection = "open" THEN "Channel" ELSE "Dial",
                        ![c].elapsed = 0, ![c].declared = 0]
    /\ UNCHANGED <<connection, channel, stopChan, wg, shutdown, panicked, Others>>

\* connect, one round of its loop: the result of amqp.Dial is assigned to the
\* connection field (nil when the dial is refused); after a refused dial it
\* sleeps and dials again while the window lasts, then returns the error.
connect_Dial(c) ==
    \E ok \in BOOLEAN :
        /\ panicked = "none"
        /\ rc[c].pc = "Dial"
        /\ IF ok
           THEN /\ connection' = "open"
                /\ rc' = [rc EXCEPT ![c].pc = "connectChannel"]
           ELSE /\ connection' = "nil"
                /\ rc' = IF rc[c].elapsed + DialSleep < ConnectWindow
                         THEN [rc EXCEPT ![c].elapsed = @ + DialSleep]
                         ELSE Failed(c)
        /\ UNCHANGED <<channel, stopChan, wg, shutdown, panicked, Others>>

\* A call of Channel() on the connection field: a nil pointer panics, a
\* closed connection answers an error, a live one opens a channel or fails.
ChannelResults ==
    IF connection = "nil" THEN {"panic"}
    ELSE IF connection = "closed" THEN {"err"}
    ELSE {"nil", "err"}

\* connect after its loop: the result of s.connection.Channel() is assigned
\* to the channel field (nil when the call fails).
connect_Channel(c) ==
    \E res \in ChannelResults :
        /\ panicked = "none"
        /\ rc[c].pc = "connectChannel"
        /\ rc' = IF res = "nil" THEN [rc EXCEPT ![c].pc = "QueueDeclare"]
                 ELSE IF res = "err" THEN Failed(c)
                 ELSE [rc EXCEPT ![c].pc = "panic"]
        /\ channel' = IF res = "nil" THEN "open"
                      ELSE IF res = "err" THEN "nil"
                      ELSE channel
        /\ panicked' = IF res = "panic" THEN "nil pointer dereference" ELSE panicked
        /\ UNCHANGED <<connection, stopChan, wg, shutdown, Others>>

\* The number of queues a run of the QueueDeclare loop on the channel field
\* may declare before it ends: a nil pointer panics at the first call (-1), a
\* closed channel fails the first call, an open one may fail any call.
DeclareResults ==
    IF channel = "nil" THEN {-1}
    ELSE IF channel = "closed" THEN {0}
    ELSE 0..Len(connectQueues)

\* connect: the loop of s.channel.QueueDeclare over the four queues; connect
\* returns the first error, or nil after the last queue.
connect_QueueDeclare(c) ==
    \E n \in DeclareResults :
        /\ panicked = "none"
        /\ rc[c].pc = "QueueDeclare"
        /\ rc' = IF n = Len(connectQueues)
                 THEN [rc EXCEPT ![c].pc = "Channel", ![c].declared = n]
                 ELSE IF n >= 0 THEN Failed(c)
                 ELSE [rc EXCEPT ![c].pc = "panic"]
        /\ panicked' = IF n < 0 THEN "nil pointer dereference" ELSE panicked
        /\ UNCHANGED <<connection, channel, stopChan, wg, shutdown, Others>>

\* consume after ensureConnection: s.connection.Channel() and ch.Consume; then
\* it ranges over the deliveries.
consume_Channel(c) ==
    \E res \in ChannelResults :
        /\ panicked = "none"
        /\ rc[c].pc = "Channel"
        /\ rc' = IF res = "nil" THEN [rc EXCEPT ![c].pc = "consuming", ![c].fails = 0]
                 ELSE IF res = "err" THEN Failed(c)
                 ELSE [rc EXCEPT ![c].pc = "panic"]
        /\ panicked' = IF res = "panic" THEN "nil pointer dereference" ELSE panicked
        /\ UNCHANGED <<connection, channel, stopChan, wg, shutdown, Others>>

\* consume: the delivery channel was closed (by the broker, or with the
\* connection); consume returns "consumer channel closed".
consume_Closed(c) ==
    /\ panicked = "none"
    /\ rc[c].pc = "consuming"
    /\ rc' = [rc EXCEPT ![c].pc = "sleep"]
    /\ UNCHANGED <<connection, channel, stopChan, wg, shutdown, panicked, Others>>

\* runConsumer: the sleep after a failed consume is over; back to the select.
runConsumer_Sleep(c) ==
    /\ panicked = "none"
    /\ rc[c].pc = "sleep"
    /\ rc' = [rc EXCEPT ![c].pc = "select"]
    /\ UNCHANGED <<connection, channel, stopChan, wg, shutdown, panicked, Others>>

\* The broker or the network drops the connection, and its channel with it.
Drop ==
    /\ panicked = "none"
    /\ connection = "open"
    /\ connection' = "closed"
    /\ channel' = IF channel = "open" THEN "closed" ELSE channel
    /\ UNCHANGED <<rc, stopChan, wg, shutdown, panicked, Others>>

\* Shutdown: close(stopChan).
Shutdown_Close ==
    /\ panicked = "none"
    /\ shutdown = "idle"
    /\ stopChan' = "closed"
    /\ shutdown' = "Wait"
    /\ UNCHANGED <<connection, channel, rc, wg, panicked, Others>>

\* Shutdown: wg.Wait returns once the counter is zero; then the connection,
\* if there is one, is closed.
Shutdown_Wait ==
    /\ panicked = "none"
    /\ shutdown = "Wait"
    /\ wg = 0
    /\ connection' = IF connection = "nil" THEN "nil" ELSE "closed"
    /\ channel' = IF connection # "nil" /\ channel = "open" THEN "closed" ELSE channel
    /\ shutdown' = "done"
    /\ UNCHANGED <<rc, stopChan, wg, panicked, Others>>

NextSup ==
    \/ \E c \in Consumers : runConsumer_Select(c)
    \/ \E c \in Consumers : ensureConnection(c)
    \/ \E c \in Consumers : connect_Dial(c)
    \/ \E c \in Consumers : connect_Channel(c)
    \/ \E c \in Consumers : connect_QueueDeclare(c)
    \/ \E c \in Consumers : consume_Channel(c)
    \/ \E c \in Consumers : consume_Closed(c)
    \/ \E c \in Consumers : runConsumer_Sleep(c)
    \/ Drop
    \/ Shutdown_Close
    \/ Shutdown_Wait

SpecSup == Init /\ [][NextSup]_vars

\* ------------------------------------------------------------- properties
\* The outstanding call is op on a valid queue name.
IsCall(op) == call.op = op /\ call.queueID \in ValidQueues

\* The list of the called queue before and after the outstanding call.
Before == QueueOf(call.pre, call.queueID)
After == QueueOf(store, call.queueID)

\* Zero-based index of an id that occurs in list l.
IndexIn(l, x) == (CHOOSE i \in 1..Len(l) : l[i] = x) - 1

\* Every queue other than the called one is as it was.
OthersUnchanged == \A q \in ValidQueues \ {call.queueID} : store[q] = call.pre[q]

\* Ids common to both lists are in the same relative order in both (as they
\* are when the list is unchanged).
OrderPreserved(old, new) ==
    \/ old = new
    \/ \A a, b \in Jobs :
          (contains(old, a) /\ contains(old, b) /\ contains(new, a) /\ contains(new, b)
           /\ IndexIn(old, a) < IndexIn(old, b))
          => IndexIn(new, a) < IndexIn(new, b)

\* C1: with the store answering, AppendToQueue(q, j) of an id not in q
\* succeeds, and a DeleteFromQueue(q, j) called right after it succeeds and
\* leaves q with the list (size, members, order) it had before the append,
\* and every other queue untouched.
C1_AppendThenDeleteRestores ==
    /\ (IsCall("append") /\ call.fault = "none" /\ ~contains(Before, call.itemID))
       => (call.err = "nil" /\ contains(After, call.itemID))
    /\ (IsCall("delete") /\ call.fault = "none" /\ prev.op = "append"
        /\ prev.queueID = call.queueID /\ prev.itemID = call.itemID)
       => /\ call.err = "nil"
          /\ After = QueueOf(prev.pre, call.queueID)
          /\ \A q \in ValidQueues \ {call.queueID} : store[q] = prev.pre[q]

C1_Witness ==
    /\ IsCall("delete") /\ call.err = "nil" /\ prev.op = "append"
    /\ prev.queueID = call.queueID /\ prev.itemID = call.itemID
    /\ Len(After) >= 1

\* C2: AppendToQueue(q, j) with j already in q writes nothing to any queue,
\* and whenever its FindOne answers it returns ErrIDAlreadyInQueue.
C2_AppendPresentFails ==
    (IsCall("append") /\ contains(Before, call.itemID))
    => /\ store = call.pre
       /\ call.err # "nil"
       /\ call.fault # "find" => call.err = "ErrIDAlreadyInQueue"

C2_Witness ==
    /\ IsCall("append") /\ call.err = "ErrIDAlreadyInQueue"
    /\ Len(Before) >= 2

\* C3: under every interleaving of the two round trips of concurrent
\* AppendToQueue and DeleteFromQueue calls, no id occurs twice in a stored
\* list, and GetQueuePosition can at no moment return ErrMultipleIDsInQueue.
C3_NoDuplicates ==
    \A q \in ValidQueues, j \in Jobs :
        /\ Cardinality(Occurrences(QueueOf(store, q), j)) <= 1
        /\ GetQueuePosition(store, q, j, "none").err # "ErrMultipleIDsInQueue"

\* A client is about to write a list ending in an id that another call has
\* put into the same queue in the meantime.
C3_Witness ==
    \E c \in Clients :
        /\ inflight[c] # NoCall
        /\ inflight[c].op = "append"
        /\ contains(QueueOf(store, inflight[c].queueID), inflight[c].itemID)
        /\ Len(inflight[c].queueList) >= 2

\* C4: for A in q, a successful append of another id leaves A's position
\* unchanged; a successful removal of an id behind A leaves it unchanged;
\* a successful removal of an id ahead of A lowers it by exactly one.
C4_PositionStable ==
    \A A \in Jobs :
        ((IsCall("append") \/ IsCall("delete")) /\ call.err = "nil"
         /\ contains(Before, A) /\ A # call.itemID)
        => LET old == GetQueuePosition(call.pre, call.queueID, A, "none")
               new == GetQueuePosition(store, call.queueID, A, "none")
               gone == GetQueuePosition(call.pre, call.queueID, call.itemID, "none")
           IN /\ IsCall("append") => (new.err = "nil" /\ new.position = old.position)
              /\ (IsCall("delete") /\ gone.position > old.position)
                 => (new.err = "nil" /\ new.position = old.position)
              /\ (IsCall("delete") /\ gone.position < old.position)
                 => (new.err = "nil" /\ new.position = old.position - 1)

\* The middle one of three ids is removed: one id ahead of it, one behind.
C4_Witness ==
    /\ IsCall("delete") /\ call.err = "nil"
    /\ Len(Before) = 3 /\ Before[2] = call.itemID

\* C5: a successful append puts the id after every id the list held; a
\* successful removal takes out exactly the one entry of that id; and no call
\* changes the relative order of the ids that stay in a queue.
C5_Fifo ==
    /\ (IsCall("append") /\ call.err = "nil") => After = Append(Before, call.itemID)
    /\ (IsCall("delete") /\ call.err = "nil")
       => /\ Len(After) = Len(Before) - 1
          /\ ~contains(After, call.itemID)
          /\ \A a \in Jobs \ {call.itemID} : contains(Before, a) => contains(After, a)
    /\ call # NoCall
       => \A q \in ValidQueues :
              OrderPreserved(QueueOf(call.pre, q), QueueOf(store, q))

\* The head of three ids is removed: the two that stay keep their order.
C5_Witness ==
    /\ IsCall("delete") /\ call.err = "nil"
    /\ Len(Before) = 3 /\ Before[1] = call.itemID /\ Len(After) = 2

\* C6 (as claimed): GetQueueSize of a valid name returns the list length
\* without an error, zero when the queue document was never created.
C6_SizeZeroWhenAbsent ==
    (IsCall("size") /\ call.fault = "none")
    => (call.err = "nil" /\ call.size = Len(Before))

\* C7 (as claimed): DeleteFromQueue on a valid name returns the empty-queue
\* error when q holds no entry (also when nothing was ever appended), the
\* not-found error when q is non-empty without j, and writes nothing.
C7_DeleteErrors ==
    (IsCall("delete") /\ call.fault = "none" /\ ~contains(Before, call.itemID))
    => /\ store = call.pre
       /\ Len(Before) = 0 => call.err = "ErrInvalidOpOnEmptyQueue"
       /\ Len(Before) > 0 => call.err = "ErrIDNotFoundInQueue"

\* C8: AppendToQueue with an unrecognised name returns ErrInvalidQueueID and
\* writes nothing; with a valid name whose document is absent (and the store
\* answering) it creates the document, which then holds exactly the new id.
C8_AppendInvalidOrCreate ==
    /\ (call.op = "append" /\ call.queueID \notin ValidQueues)
       => (call.err = "ErrInvalidQueueID" /\ store = call.pre)
    /\ (IsCall("append") /\ call.pre[call.queueID] = NoDoc /\ call.fault = "none")
       => /\ call.err = "nil"
          /\ store[call.queueID] = <<call.itemID>>
          /\ OthersUnchanged

C8_Witness ==
    /\ IsCall("append") /\ call.pre[call.queueID] = NoDoc
    /\ store[call.queueID] = <<call.itemID>>
    /\ Total(store) >= 2

\* The outstanding call is a granted GetSceneProgress with the store answering.
IsProgress == call.op = "progress" /\ call.access = "nil" /\ call.faultAt = 0

\* The stage queues (all names but the first) that hold the asked job.
StagesHolding ==
    {i \in 2..Len(queueNames) : contains(QueueOf(call.pre, queueNames[i]), call.itemID)}

InOverall == contains(QueueOf(call.pre, queueNames[1]), call.itemID)

\* C9 (as claimed): a job in the overall queue and in exactly one stage queue
\* is reported processing, with that queue's name as stage, its zero-based
\* index there as stage_position and that queue's length as stage_size.
C9_StageReport ==
    (IsProgress /\ InOverall /\ Cardinality(StagesHolding) = 1)
    => LET q == queueNames[CHOOSE i \in StagesHolding : TRUE]
       IN /\ call.err = "nil"
          /\ call.report.processing = TRUE
          /\ call.report.stage = q
          /\ call.report.stage_position = IndexIn(QueueOf(call.pre, q), call.itemID)
          /\ call.report.stage_size = Len(QueueOf(call.pre, q))
          /\ call.report.stage_position < call.report.stage_size

\* C10 (as claimed): a job in the overall queue and in no stage queue gets a
\* successful report: processing, overall position and size, and no stage.
C10_OverallOnlyReport ==
    (IsProgress /\ InOverall /\ StagesHolding = {})
    => /\ call.err = "nil"
       /\ call.report.processing = TRUE
       /\ call.report.overall_position
              = IndexIn(QueueOf(call.pre, queueNames[1]), call.itemID)
       /\ call.report.overall_size = Len(QueueOf(call.pre, queueNames[1]))
       /\ "stage" \notin DOMAIN call.report

\* C11 (as claimed): for a job that is not in the overall queue,
\* GetSceneProgress returns no error and the report {processing: false},
\* whatever the stage queues hold and also when no queue document exists yet.
C11_AbsentNotProcessing ==
    (IsProgress /\ ~InOverall)
    => /\ call.err = "nil"
       /\ call.report = [processing |-> FALSE]

\* ------------------------------------------------- properties: pipeline
InQueue(q, j) == contains(QueueOf(store, q), j)

\* C12: in every state of the pipeline, also between the appends of
\* PublishSFMJob and between the removals of processNERFJob, a report of
\* GetSceneProgress that says processing = false carries no other field: no
\* stage and no stage position.
C12_NoStageWhenNotProcessing ==
    \A j \in PipeJobs, faultAt \in 0..Len(queueNames) :
        LET r == GetSceneProgress(store, j, "nil", faultAt)
        IN (r.err = "nil" /\ r.report.processing = FALSE)
           => DOMAIN r.report = {"processing"}

\* A job that a stage queue holds is reported as not processing.
C12_Witness ==
    \E j \in PipeJobs :
        /\ InQueue("sfm_list", j) \/ InQueue("nerf_list", j)
        /\ GetSceneProgress(store, j, "nil", 0)
               = [err |-> "nil", report |-> [processing |-> FALSE]]

\* C13: PublishSFMJob first publishes to sfm-in, then appends the job to
\* sfm_list, then to queue_list: before the publish nothing of the job
\* exists, before the first append the message is sent and the job is in no
\* queue, before the second append the job has been put into sfm_list (where
\* it stays until the stage-1 consumer, which sets sfm first, removes it) and
\* is not in queue_list; the job is in queue_list only once the call is over.
C13_PublishOrder ==
    \A j \in PipeJobs :
        /\ pub[j].pc = "start"
           => /\ broker.sfmIn[j] = 0
              /\ ~InQueue("sfm_list", j) /\ ~InQueue("queue_list", j)
        /\ (pub[j].pc = "append" /\ pub[j].k = 1)
           => /\ broker.sfmIn[j] = 1
              /\ ~InQueue("sfm_list", j) /\ ~InQueue("queue_list", j)
        /\ (pub[j].pc = "append" /\ pub[j].k = 2)
           => /\ broker.sfmIn[j] = 1
              /\ InQueue("sfm_list", j) \/ scenes[j].sfm
              /\ ~InQueue("queue_list", j)
        /\ InQueue("queue_list", j) => (pub[j].pc = "done" /\ pub[j].err = "nil")

\* The publisher between its two appends.
C13_Witness ==
    \E j \in PipeJobs :
        /\ pub[j].pc = "append" /\ pub[j].k = 2
        /\ InQueue("sfm_list", j) /\ ~InQueue("queue_list", j)

\* A step of the PublishSFMJob call for job j.
PubStep(j) == pub'[j] # pub[j]

\* A step of the stage-1 consumer taken from position pc.
SfmStep(pc) == sc.pc = pc /\ sc' # sc

\* A step of the stage-2 consumer taken from position pc.
NerfStep(pc) == nc.pc = pc /\ nc' # nc

\* C14: when the publish to sfm-in in PublishSFMJob fails, the call ends
\* there with an error and the step writes no queue; when the publish to
\* nerf-in in PublishNERFJob fails, processSFMJob gets the error (the delivery
\* is negatively acknowledged) and the step writes no queue.
C14_PublishFailureWritesNothing ==
    [][/\ \A j \in PipeJobs :
            (pub[j].pc = "start" /\ PubStep(j) /\ broker'.sfmIn[j] = broker.sfmIn[j])
            => (pub'[j].pc = "done" /\ pub'[j].err # "nil" /\ store' = store)
       /\ (SfmStep("PublishNERFJob") /\ broker'.nerfIn = broker.nerfIn)
          => (sc'.pc = "idle" /\ sc'.res = "nack" /\ store' = store)]_vars

\* PublishNERFJob has failed at its publish: the record has sfm, the job left
\* sfm_list, no message reached nerf-in and the delivery was requeued.
C14_Witness ==
    /\ sc.pc = "idle" /\ sc.res = "nack" /\ sc.id \in PipeJobs
    /\ scenes[sc.id].sfm /\ ~InQueue("sfm_list", sc.id)
    /\ InQueue("queue_list", sc.id)
    /\ broker.nerfIn[sc.id] = 0 /\ broker.sfmOut[sc.id] = 1

\* C15: an AppendToQueue of PublishSFMJob that fails (it writes nothing) ends
\* the call with that error, takes back neither the message nor an earlier
\* append, and no later append follows: after a failed append to sfm_list
\* the message is still sent and the job never gets into queue_list; after a
\* failed append to queue_list the job is left in sfm_list (until the
\* stage-1 consumer, which sets sfm first, removes it).
C15_AppendFailure ==
    /\ [][\A j \in PipeJobs :
            (pub[j].pc = "append" /\ PubStep(j) /\ store' = store)
            => /\ pub'[j].pc = "done" /\ pub'[j].err # "nil"
               /\ broker' = broker /\ broker.sfmIn[j] = 1]_vars
    /\ [](\A j \in PipeJobs :
            (pub[j].pc = "done" /\ pub[j].err # "nil" /\ pub[j].k >= 1)
            => /\ broker.sfmIn[j] = 1
               /\ ~InQueue("queue_list", j)
               /\ pub[j].k = 1 => ~InQueue("sfm_list", j)
               /\ pub[j].k = 2 => (InQueue("sfm_list", j) \/ scenes[j].sfm))

\* The append to queue_list has failed and the job sits in sfm_list.
C15_Witness ==
    \E j \in PipeJobs :
        /\ pub[j].pc = "done" /\ pub[j].err # "nil" /\ pub[j].k = 2
        /\ InQueue("sfm_list", j) /\ ~InQueue("queue_list", j)
        /\ broker.sfmIn[j] = 1

\* C16: every step of PublishNERFJob, failing or not, leaves the documents of
\* queue_list and sfm_list as they are; when its append succeeds the only
\* change is the job at the end of nerf_list.
C16_PublishNerfWritesStage2Only ==
    [][(SfmStep("PublishNERFJob") \/ SfmStep("AppendToQueue"))
       => /\ store'["queue_list"] = store["queue_list"]
          /\ store'["sfm_list"] = store["sfm_list"]
          /\ store'["nerf_list"] # store["nerf_list"]
             => store'["nerf_list"]
                   = Append(QueueOf(store, "nerf_list"), sc.id)]_vars

\* PublishNERFJob has returned nil: one message in nerf-in, the job in
\* nerf_list.
C16_Witness ==
    /\ sc.pc = "idle" /\ sc.res = "ack"
    /\ broker.nerfIn[sc.id] = 1
    /\ InQueue("nerf_list", sc.id)

\* The stage-1 consumer returns nil (and acknowledges) for a job whose
\* PublishSFMJob had returned nil.
SfmSuccess ==
    /\ SfmStep("AppendToQueue") /\ sc'.res = "ack"
    /\ pub[sc.id].pc = "done" /\ pub[sc.id].err = "nil"

C18_Stage2Success ==
    [][(NerfStep("DeleteOverall") /\ nc'.res = "ack")
       => /\ ~InQueue("nerf_list", nc.id)'
          /\ ~InQueue("queue_list", nc.id)'
          /\ scenes'[nc.id].nerf = <<FilePaths(nc.payload)>>]_vars

\* The body has an output type or an iteration that the config does not list.
Unrequested(payload) ==
    \E e \in FilePaths(payload) :
        \/ \A i \in 1..Len(outputTypes) : outputTypes[i] # e[1]
        \/ \A i \in 1..Len(saveIterations) : saveIterations[i] # e[2]

\* C19: a nerf-out message with an unrequested output type or iteration is
\* rejected when it is received, also when others of its entries are
\* requested: processNERFJob returns an error (the delivery is requeued),
\* and the job records and all queue documents stay exactly as they were.
C19_RejectUnrequested ==
    [][(NerfStep("idle") /\ Unrequested(nc'.payload))
       => /\ nc'.pc = "idle" /\ nc'.res = "nack"
          /\ scenes' = scenes
          /\ store' = store]_vars

\* A message with a requested and an unrequested iteration was rejected; the
\* job is still in nerf_list and queue_list and its record has no nerf.
C19_Witness ==
    /\ nc.pc = "idle" /\ nc.res = "nack" /\ nc.payload = "badIter"
    /\ scenes[nc.id].nerf = <<>>
    /\ InQueue("nerf_list", nc.id) /\ InQueue("queue_list", nc.id)
    /\ broker.nerfOut[[id |-> nc.id, payload |-> "badIter"]] = 1

\* ------------------------------------------------ properties: supervisor
\* C20 (as claimed): while no shutdown was requested, a consumer loop whose
\* consume call ended is always taken up again, after however many failures
\* in a row: no runConsumer goroutine has returned or has been ended by a
\* panic.
C20_AlwaysRetries ==
    stopChan = "open"
    => /\ panicked = "none"
       /\ \A c \in Consumers : rc[c].pc # "returned"

\* C21 (as claimed): when Shutdown has closed the connection, every consumer
\* loop has seen the closed stopChan and has returned: none is at its select,
\* connecting, consuming or sleeping.
C21_CloseAfterLoopsExit ==
    shutdown = "done" => \A c \in Consumers : rc[c].pc = "returned"

\* The positions of a loop inside its connect call.
InConnect(c) == rc[c].pc \in {"Dial", "connectChannel", "QueueDeclare"}

\* C22 (as claimed): a connect call never sleeps ConnectWindow or longer, so
\* it dials at most ConnectWindow / DialSleep times; each of its steps goes
\* on, returns an error or returns nil, and none ends in a panic; when it
\* returns nil (consume goes on to open its own channel) the connection
\* field holds a live connection, the channel field an open channel, and all
\* four queues were declared.
C22_ConnectTerminates ==
    /\ [](\A c \in Consumers : rc[c].elapsed < ConnectWindow)
    /\ [][\A c \in Consumers :
            (InConnect(c) /\ rc'[c] # rc[c])
            => /\ rc'[c].pc \in {"Dial", "connectChannel", "QueueDeclare",
                                 "Channel", "sleep"}
               /\ rc'[c].pc = "Channel"
                  => /\ connection' = "open"
                     /\ channel' = "open"
                     /\ rc'[c].declared = Len(connectQueues)]_vars

\* ------------------------------------------- properties: concurrent store
\* Client c completes an AppendToQueue whose UpdateOne stored its list.
AppendReturnsNil(c) ==
    /\ inflight[c] # NoCall /\ inflight'[c] = NoCall
    /\ inflight[c].op = "append"
    /\ store'[inflight[c].queueID] = inflight[c].queueList

\* C23 (as claimed): an AppendToQueue that returns nil takes no id out of the
\* queue it appends to, so an id that another caller's append stored between
\* this call's FindOne and its UpdateOne is still there afterwards, next to
\* the id this call appended.
C23_NoLostAppend ==
    [][\A c \in Clients :
          AppendReturnsNil(c)
          => \A j \in Jobs :
                contains(QueueOf(store, inflight[c].queueID), j)
                => contains(QueueOf(store', inflight[c].queueID), j)]_vars

\* ---------------------------------------- properties: pipeline consumers
\* C24 (as claimed): no queue document is changed both by a call of the
\* stage-1 consumer (processSFMJob with its PublishNERFJob) and by a call of
\* the stage-2 consumer (processNERFJob).
C24_DisjointQueueWrites ==
    wrote["sfm-out"] \cap wrote["nerf-out"] = {}

\* C25 (as claimed): when the stage-2 consumer processes a message that it
\* has already processed and acknowledged, and no store, broker or download
\* call fails, no step of the processing ends in a negative acknowledgement
\* and the queue documents and the job records stay as the first processing
\* left them.
C25_RedeliveryIdempotent ==
    [][(/\ nc.pc # "idle" /\ nc' # nc
        /\ NerfMsg \in broker.nerfAcked
        /\ faults' = faults)
       => /\ nc'.res # "nack"
          /\ store' = store
          /\ scenes' = scenes]_vars

\* C26: in every state, a job with a message in nerf-in (sent at any time)
\* has the structure and the video size in its record; and the step that
\* publishes to nerf-in is taken by the stage-1 consumer inside
\* PublishNERFJob, for the job of its delivery, whose record already has them.
C26_Stage2AfterStructure ==
    /\ [](\A j \in PipeJobs : broker.nerfIn[j] > 0 => scenes[j].sfm)
    /\ [][broker'.nerfIn # broker.nerfIn
          => /\ sc.pc = "PublishNERFJob"
             /\ scenes[sc.id].sfm
             /\ broker'.nerfIn = [broker.nerfIn EXCEPT ![sc.id] = @ + 1]]_vars

\* PublishNERFJob has just published the message of a job whose record has
\* the structure.
C26_Witness ==
    /\ sc.pc = "AppendToQueue"
    /\ broker.nerfIn[sc.id] = 1
    /\ scenes[sc.id].sfm

\* PublishNERFJob returns an error in this step: its publish sent nothing, or
\* its append stored nothing.
PublishNERFJobFails ==
    \/ SfmStep("PublishNERFJob") /\ broker'.nerfIn = broker.nerfIn
    \/ SfmStep("AppendToQueue") /\ store' = store

\* C27: a call of Ack on a delivery of sfm-out is made only in the step in
\* which PublishNERFJob returns nil for the job of that delivery (its message
\* is in nerf-in and the job was appended to nerf_list); when PublishNERFJob
\* returns an error, every acknowledgement call of the delivery is a Nack
\* and the message is back in sfm-out.
C27_AckAfterStage2Publish ==
    [][/\ (sc' # sc /\ contains(sc'.acks, "Ack"))
          => /\ SfmStep("AppendToQueue")
             /\ broker.nerfIn[sc.id] >= 1
             /\ store'["nerf_list"] = Append(QueueOf(store, "nerf_list"), sc.id)
       /\ PublishNERFJobFails
          => /\ sc'.acks # <<>> /\ ~contains(sc'.acks, "Ack")
             /\ sc'.pc = "idle" /\ sc'.res = "nack"
             /\ broker'.sfmOut[sc.id] = broker.sfmOut[sc.id] + 1]_vars

\* The append of PublishNERFJob has failed after its publish: the message
\* is in nerf-in, the delivery got Nacks only and is back in sfm-out.
C27_Witness ==
    /\ sc.pc = "idle" /\ sc.res = "nack" /\ sc.acks = <<"Nack", "Nack">>
    /\ sc.id \in PipeJobs
    /\ scenes[sc.id].sfm
    /\ broker.nerfIn[sc.id] = 1 /\ ~InQueue("nerf_list", sc.id)
    /\ broker.sfmOut[sc.id] = 1

\* C28 (as claimed): a delivery of sfm-out for a job whose earlier delivery
\* has failed in PublishNERFJob goes from its decoding straight to
\* PublishNERFJob: none of its steps is the SetScene or the DeleteFromQueue
\* of processSFMJob, none writes the job record or the document of sfm_list.
C28_RetryStage2Only ==
    [][/\ (SfmStep("idle") /\ sc'.pc # "idle" /\ scenes[sc'.id].sfm)
          => sc'.pc = "PublishNERFJob"
       /\ (sc.retry /\ sc' # sc)
          => /\ sc.pc \notin {"SetScene", "DeleteFromQueue"}
             /\ scenes' = scenes
             /\ store'["sfm_list"] = store["sfm_list"]]_vars

\* C29 (as claimed): when processNERFJob rejects a delivery because the body
\* has an output type or an iteration the job did not request (nothing else
\* fails), the message is taken out of nerf-out and not put back, so it is
\* not delivered again.
C29_ValidationNotRequeued ==
    [][(NerfStep("idle") /\ faults' = faults /\ Unrequested(nc'.payload))
       => broker'.nerfOut[[id |-> nc'.id, payload |-> nc'.payload]]
             = broker.nerfOut[[id |-> nc'.id, payload |-> nc'.payload]] - 1]_vars

\* C30: when the stage-1 or the stage-2 consumer is handed a body that cannot
\* be decoded, every acknowledgement call made on the delivery is a Nack,
\* the message stays in its queue (the broker holds exactly the messages it
\* held, none was dropped or moved elsewhere), no queue document and no job
\* record changes, and the consumer is ready for the next delivery, which
\* may be the same message again.
C30_UndecodableRequeued ==
    [][/\ (sc.pc = "idle" /\ sc' # sc /\ sc'.pc = "idle" /\ sc'.id = 0)
          => /\ sc'.res = "nack"
             /\ sc'.acks # <<>> /\ ~contains(sc'.acks, "Ack")
             /\ broker' = broker /\ broker.undecodable["sfm-out"] > 0
             /\ store' = store /\ scenes' = scenes
       /\ (nc.pc = "idle" /\ nc' # nc /\ nc'.payload = "undecodable")
          => /\ nc'.pc = "idle" /\ nc'.res = "nack"
             /\ broker' = broker /\ broker.undecodable["nerf-out"] > 0
             /\ store' = store /\ scenes' = scenes]_vars

\* An undecodable body of sfm-out was rejected with two Nacks (one of
\* processSFMJob, one of consume) and is still in sfm-out.
C30_Witness ==
    /\ sc.pc = "idle" /\ sc.id = 0 /\ sc.res = "nack"
    /\ sc.acks = <<"Nack", "Nack">>
    /\ broker.undecodable["sfm-out"] = 1

\* C31: when fetching or writing a frame fails in the stage-1 consumer, the
\* message is given up before any job record is loaded: the job record and the
\* stage-1, stage-2 and overall queues stay as they are, no stage-2 message is
\* published, and the one acknowledgement call is a Nack that puts the message
\* back in the stage-1 result queue.
C31_FetchFailureAborts ==
    [][(sc' # sc /\ sc'.err = "fetch")
          => /\ sc'.config = <<>>
             /\ scenes' = scenes
             /\ store' = store
             /\ broker'.nerfIn = broker.nerfIn
             /\ sc'.acks = <<"Nack">>
             /\ broker'.sfmOut = broker.sfmOut]_vars

C31_Witness == sc.err = "fetch" /\ sc.res = "nack" /\ broker.sfmOut[sc.id] > 0

\* C33: the training configuration of a job is never changed after the job
\* was created: whatever the publishers and consumers of both stages do and
\* however often they retry, every job record holds the configuration it was
\* created with.
C33_ConfigImmutable == \A j \in PipeJobs : scenes[j].config = trainingConfig

C33_Witness ==
    \E j \in PipeJobs :
        /\ scenes[j].sfm
        /\ scenes[j].nerf # <<>>
        /\ scenes[j].config = trainingConfig

\* C32: render outputs are populated incrementally: when the stage-2 consumer
\* persists the outputs of a result message, every (output type, iteration)
\* entry that an earlier result message of the job had recorded is still in
\* the job record.
C32_OutputsIncremental ==
    [][(NerfStep("SetNerf") /\ scenes[nc.id].nerf # <<>>)
          => /\ scenes'[nc.id].nerf # <<>>
             /\ scenes[nc.id].nerf[1] \subseteq scenes'[nc.id].nerf[1]]_vars

\* C34: once the shutdown signal has been given, a consumer loop that comes
\* to the top of its loop starts no new consume attempt and no reconnect: it
\* observes the signal and exits, and the process goes on so that every other
\* loop can do the same.
C34_LoopsExitAfterSignal ==
    [][\A c \in Consumers :
          (stopChan = "closed" /\ rc[c].pc = "select" /\ rc'[c] # rc[c])
             => (rc'[c].pc = "returned" /\ panicked' = "none")]_vars

\* C35: every message delivered to a stage consumer gets exactly one
\* acknowledgement decision per delivery, one Ack or one Nack, on sfm-out and
\* on nerf-out alike.
C35_OneAckDecision ==
    [][(sc' # sc /\ sc'.pc = "idle" /\ sc'.res # "none") => Len(sc'.acks) = 1]_vars

\* C36: for each job at most one stage-2 input message is ever published to
\* nerf-in, also when the stage-1 result is redelivered or the queue append
\* of PublishNERFJob fails after the publish.
C36_OneNerfInPerJob == \A j \in PipeJobs : broker.nerfIn[j] <= 1

\* C38: a job is in at most one stage queue: never in sfm_list and nerf_list
\* at once, also when the stage-1 consumer's removal from sfm_list fails.
C38_OneStageQueue ==
    \A j \in PipeJobs : ~(InQueue("sfm_list", j) /\ InQueue("nerf_list", j))

\* C39: a job that DeleteFromQueue has taken out of the overall queue does
\* not come back into it through an AppendToQueue of another job, however the
\* two calls' store round trips interleave.
C39_RemovedStaysRemoved ==
    [][\A c \in Clients :
          (AppendReturnsNil(c) /\ inflight[c].queueID = queueNames[1])
          => \A j \in removed \ {inflight[c].itemID} :
                ~contains(QueueOf(store, queueNames[1]), j)
                => ~contains(QueueOf(store', queueNames[1]), j)]_vars

\* C40: the WaitGroup counts the consumer loops that were started and have
\* not finished: it is incremented for each loop before the loop can finish,
\* so it is never below zero and wg.Wait blocks while a loop is running.
C40_JoinCounter ==
    wg = Cardinality({c \in Consumers : rc[c].pc # "returned"})

\* Every message in nerf-out and sfm-out is a result a worker may rightly
\* send: decodable, and listing only outputs the job's config asks for.
WorkersValid ==
    /\ \A m \in NerfMsgs : m.payload \notin ValidPayloads => broker.nerfOut[m] = 0
    /\ \A c \in {"sfm-out", "nerf-out"} : broker.undecodable[c] = 0

\* C37: when the workers answer every message with a valid result and the
\* broker and the stores fail only finitely often, every job that is in the
\* overall queue eventually leaves it, also after a failure between the
\* stage-2 consumer's removal from nerf_list and its removal from queue_list.
C37_JobsLeaveOverallQueue ==
    []WorkersValid
    => \A j \in PipeJobs : InQueue("queue_list", j) ~> ~InQueue("queue_list", j)

====
